---- MODULE Spec2Model ----
(***************************************************************************)
(* Intrusive multi-producer single-consumer queue of                       *)
(* src/libsync/sync/mpsc_intrusive.rs (Vyukov's intrusive MPSC node queue, *)
(* modified so that an all-zero queue is a valid empty queue).             *)
(*                                                                         *)
(* Every access to shared memory (a node's or the stub's next field, the   *)
(* queue's head) is one step of the model; the thread-local computation    *)
(* that follows an access up to the next shared access (or the return) is  *)
(* part of the same step.  self.tail is touched by the consumer only, so   *)
(* its reads and writes are thread-local.  Memory is sequentially          *)
(* consistent at this granularity.                                         *)
(***************************************************************************)
EXTENDS Integers, Sequences, FiniteSets, TLC

\* ---------------------------------------------------------------- bounds
NumNodes == 3
NumProducers == 2
MaxPush == 3

\* ------------------------------------------------------------- addresses
\* The zero word: a null link, an unset tail, the head of a fresh queue.
Null == 0
Nodes == 1..NumNodes
\* The address of the queue's embedded stub (&self.stub).
Stub == NumNodes + 1
Cells == Nodes \cup {Stub}

Producers == 1..NumProducers
Consumer == NumProducers + 1
Threads == Producers \cup {Consumer}

VARIABLES
    head,     \* Queue.head
    tail,     \* Queue.tail
    next,     \* the next field of every node and of the stub
    pc,       \* where each thread stands
    node,     \* push's parameter `node`, per thread inside push
    prev,     \* push's local `prev`, per thread inside push
    popTail,  \* pop's local `tail` (the cursor)
    pushed,   \* history: the caller nodes in the order of their head exchange
    popped,   \* history: the nodes returned by pop, in order
    result,   \* history: what the last completed pop returned
    winAny,   \* history: some producer was between exchange and link write
              \*          at some moment of the pop in progress
    winAll,   \* history: the producers that have been inside one and the same
              \*          exchange-to-link window since the last pop began
    handed,   \* history: the previous-head values the exchanges of the
              \*          producers' pushes returned, in exchange order
    seen      \* history: the number of exchanged nodes, counted in exchange
              \*          order, whose payload is visible to the consumer

vars == <<head, tail, next, pc, node, prev, popTail,
          pushed, popped, result, winAny, winAll, handed, seen>>

\* ------------------------------------------------------------- helpers
RECURSIVE Count(_, _)
Count(x, s) ==
    IF s = <<>> THEN 0
    ELSE (IF Head(s) = x THEN 1 ELSE 0) + Count(x, Tail(s))

IsPrefix(s, t) ==
    /\ Len(s) <= Len(t)
    /\ \A i \in 1..Len(s) : s[i] = t[i]

NoResult == <<>>
None == <<"None">>
Some(n) == <<"Some", n>>

\* Producers that have exchanged head and not yet written the link.
InWindow == {p \in Producers : pc[p] = "link"}

\* A node is the caller's to push when it is not linked into the queue and no
\* push of it is under way (push's precondition).
InQueue(n) == Count(n, pushed) > Count(n, popped)
BeingPushed(n) == \E p \in Producers : pc[p] \in {"store", "swap"} /\ node[p] = n
CallerOwned(n) == ~InQueue(n) /\ ~BeingPushed(n)

\* Push invocations by producers begun so far.
Calls == Len(pushed) + Cardinality({p \in Producers : pc[p] \in {"store", "swap"}})

\* ---------------------------------------------------------------- Init
\* Mutant of NewQueue: head and tail start at the stub, as in the queue this
\* one is derived from.
NewQueueSelfStub == [head |-> Stub, tail |-> Stub, stub_next |-> Null]

\* Queue::new(): head 0, tail null, stub.next 0.
NewQueue == [head |-> Null, tail |-> Null, stub_next |-> Null]

\* A Queue whose memory is all zero bytes (static initialisation): each of its
\* three words, head, tail and stub.next, is 0.
ZeroQueue == [f \in {"head", "tail", "stub_next"} |-> 0]

\* The state in which queue q is first shared.  Node::new(): next 0.
StartFrom(q) ==
    /\ head = q.head
    /\ tail = q.tail
    /\ next = [c \in Cells |-> IF c = Stub THEN q.stub_next ELSE Null]
    /\ pc = [t \in Threads |-> "idle"]
    /\ node = [t \in Threads |-> Null]
    /\ prev = [t \in Threads |-> Null]
    /\ popTail = Null
    /\ pushed = <<>>
    /\ popped = <<>>
    /\ result = NoResult
    /\ winAny = FALSE
    /\ winAll = {}
    /\ handed = <<>>
    /\ seen = 0

Init == StartFrom(NewQueue)

InitZero == StartFrom(ZeroQueue)

\* ------------------------------------------------------ memory orderings
\* The ordering argument of each atomic access of the queue.
LinkStoreOrder == "Release"
SwapOrder == "AcqRel"
LinkLoadOrder == "Relaxed"
HeadLoadOrder == "Acquire"

\* An access with ordering o is an acquire, a release operation.
Acquires(o) == o \in {"Acquire", "AcqRel", "SeqCst"}
Releases(o) == o \in {"Release", "AcqRel", "SeqCst"}

\* The place in the exchange order of the push whose link write stored v.
LastIndex(v) ==
    LET I == {i \in 1..Len(pushed) : pushed[i] = v}
    IN  IF I = {} THEN 0 ELSE CHOOSE i \in I : \A j \in I : j <= i

\* A push's writes to its node's payload come before its release operations,
\* and each exchange of head, acquiring from the one before it, carries the
\* writes of all earlier pushes.  An acquire operation of the consumer that
\* reads a value a release operation of the k-th push wrote makes the
\* payloads of the first k exchanged nodes visible to the consumer; a relaxed
\* load makes nothing visible.

\* pop loads a link and reads v (lines 101, 108, 120).
LinkSync(v) ==
    IF Acquires(LinkLoadOrder) /\ Releases(LinkStoreOrder) /\ LastIndex(v) > seen
    THEN LastIndex(v)
    ELSE seen

\* pop loads head (line 114): head is the node exchanged last, or the stub
\* the consumer exchanged itself.
HeadSync ==
    IF Acquires(HeadLoadOrder) /\ Releases(SwapOrder) THEN Len(pushed) ELSE seen

\* The consumer exchanges head with the stub (line 70 from line 119).
SwapSync ==
    IF Acquires(SwapOrder) /\ Releases(SwapOrder) THEN Len(pushed) ELSE seen

\* ---------------------------------------------------------------- push
\* Mutant of LinkField: the stub's link is written in both branches.
LinkFieldStub(p) == Stub

\* The link field push writes after the exchange: the stub's when the previous
\* head was the zero word, the previous head node's otherwise.
LinkField(p) == IF p = Null THEN Stub ELSE p

\* A producer calls push(n) on a node it owns.
PushCall(p, n) ==
    /\ p \in Producers
    /\ pc[p] = "idle"
    /\ CallerOwned(n)
    /\ Calls < MaxPush
    /\ pc' = [pc EXCEPT ![p] = "store"]
    /\ node' = [node EXCEPT ![p] = n]
    /\ UNCHANGED <<head, tail, next, prev, popTail,
                   pushed, popped, result, winAny, winAll, handed>>
    /\ UNCHANGED seen

\* (*node).next.store(0, Release)
PushStore(t) ==
    /\ pc[t] = "store"
    /\ next' = [next EXCEPT ![node[t]] = Null]
    /\ pc' = [pc EXCEPT ![t] = "swap"]
    /\ UNCHANGED <<head, tail, node, prev, popTail,
                   pushed, popped, result, winAny, winAll, handed>>
    /\ UNCHANGED seen

\* Mutant of PushSwap: the exchange torn into a load and a store, so that the
\* previous value may be the one another push in flight has already taken.
PushSwapTorn(t) ==
    /\ pc[t] = "swap"
    /\ \E h \in {head} \cup {prev[u] : u \in {x \in Threads : pc[x] = "link"}} :
          /\ prev' = [prev EXCEPT ![t] = h]
          /\ handed' = IF t \in Producers THEN Append(handed, h) ELSE handed
    /\ head' = node[t]
    /\ pc' = [pc EXCEPT ![t] = "link"]
    /\ pushed' = IF t \in Producers THEN Append(pushed, node[t]) ELSE pushed
    /\ winAny' = (winAny \/ (t \in Producers /\ pc[Consumer] # "idle"))
    /\ UNCHANGED <<tail, next, node, popTail, popped, result, winAll>>
    /\ seen' = IF t = Consumer THEN SwapSync ELSE seen

\* Mutant of PushSwap: the exchange and the link write guarded by a lock, so
\* that a push waits while another thread is between its exchange and its link.
PushSwapLocked(t) ==
    /\ pc[t] = "swap"
    /\ \A u \in Threads \ {t} : pc[u] # "link"
    /\ prev' = [prev EXCEPT ![t] = head]
    /\ head' = node[t]
    /\ pc' = [pc EXCEPT ![t] = "link"]
    /\ pushed' = IF t \in Producers THEN Append(pushed, node[t]) ELSE pushed
    /\ handed' = IF t \in Producers THEN Append(handed, head) ELSE handed
    /\ winAny' = (winAny \/ (t \in Producers /\ pc[Consumer] # "idle"))
    /\ UNCHANGED <<tail, next, node, popTail, popped, result, winAll>>
    /\ seen' = IF t = Consumer THEN SwapSync ELSE seen

\* Mutant of PushSwap: the first push also sets the consumer's tail, so that
\* pop need not start at the stub.
PushSwapSetsTail(t) ==
    /\ pc[t] = "swap"
    /\ prev' = [prev EXCEPT ![t] = head]
    /\ head' = node[t]
    /\ tail' = IF tail = Null /\ t \in Producers THEN Stub ELSE tail
    /\ pc' = [pc EXCEPT ![t] = "link"]
    /\ pushed' = IF t \in Producers THEN Append(pushed, node[t]) ELSE pushed
    /\ winAny' = (winAny \/ (t \in Producers /\ pc[Consumer] # "idle"))
    /\ handed' = IF t \in Producers THEN Append(handed, head) ELSE handed
    /\ UNCHANGED <<next, node, popTail, popped, result, winAll>>
    /\ seen' = IF t = Consumer THEN SwapSync ELSE seen

\* let prev = self.head.swap(node as uint, AcqRel)
PushSwap(t) ==
    /\ pc[t] = "swap"
    /\ prev' = [prev EXCEPT ![t] = head]
    /\ head' = node[t]
    /\ pc' = [pc EXCEPT ![t] = "link"]
    /\ pushed' = IF t \in Producers THEN Append(pushed, node[t]) ELSE pushed
    /\ winAny' = (winAny \/ (t \in Producers /\ pc[Consumer] # "idle"))
    /\ handed' = IF t \in Producers THEN Append(handed, head) ELSE handed
    /\ UNCHANGED <<tail, next, node, popTail, popped, result, winAll>>
    /\ seen' = IF t = Consumer THEN SwapSync ELSE seen

\* Mutant of PushLink: the link is written the wrong way round, from the new
\* node back to the previous head.
PushLinkBackwards(t) ==
    /\ pc[t] = "link"
    /\ next' = [next EXCEPT ![node[t]] = prev[t]]
    /\ pc' = [pc EXCEPT ![t] = IF t = Consumer THEN "reload" ELSE "idle"]
    /\ node' = [node EXCEPT ![t] = Null]
    /\ prev' = [prev EXCEPT ![t] = Null]
    /\ winAll' = winAll \ {t}
    /\ UNCHANGED <<head, tail, popTail, pushed, popped, result, winAny, handed>>
    /\ UNCHANGED seen

\* if prev == 0 { self.stub.next.store(node) } else { (*prev).next.store(node) }
\* and the return: to the caller for a producer, into pop for the consumer.
PushLink(t) ==
    /\ pc[t] = "link"
    /\ next' = [next EXCEPT ![LinkField(prev[t])] = node[t]]
    /\ pc' = [pc EXCEPT ![t] = IF t = Consumer THEN "reload" ELSE "idle"]
    /\ node' = [node EXCEPT ![t] = Null]
    /\ prev' = [prev EXCEPT ![t] = Null]
    /\ winAll' = winAll \ {t}
    /\ UNCHANGED <<head, tail, popTail, pushed, popped, result, winAny, handed>>
    /\ UNCHANGED seen

\* ----------------------------------------------------------------- pop
\* The cells met by following at most k links from c, c included.
RECURSIVE Chain(_, _)
Chain(c, k) ==
    IF c = Null \/ k = 0 THEN {} ELSE {c} \cup Chain(next[c], k - 1)

\* let mut tail = if !tail.is_null() {tail} else {&self.stub}
Cursor == IF tail # Null THEN tail ELSE Stub

\* Mutant of Advance: self.tail is left on the node that is handed out.
AdvanceStuck(cur, nxt) == cur

\* The value pop stores into self.tail when it moves past `cur` to `nxt`
\* (self.tail = next).
Advance(cur, nxt) == nxt

\* Mutant of Returned: Some(next) in place of Some(tail).
ReturnedNext(cur, nxt) == nxt

\* The node pop hands out when the cursor `cur` has the successor `nxt`
\* (return Some(tail)).
Returned(cur, nxt) == cur

\* pop returns v.
PopReturn(v) ==
    /\ result' = v
    /\ popped' = IF v = None THEN popped ELSE Append(popped, v[2])
    /\ pc' = [pc EXCEPT ![Consumer] = "idle"]
    /\ popTail' = Null
    /\ winAny' = FALSE

\* Lines 97-107 and 110-113: read self.tail, load the cursor's next; at the stub
\* report empty or step to the first node; at a node with a successor return it.
PopFirst ==
    /\ pc[Consumer] = "idle"
    /\ winAll' = InWindow
    /\ LET cur == Cursor
           nxt == next[cur]
       IN  IF cur = Stub
           THEN IF nxt = Null
                THEN PopReturn(None) /\ UNCHANGED tail
                ELSE /\ tail' = nxt
                     /\ popTail' = nxt
                     /\ pc' = [pc EXCEPT ![Consumer] = "second"]
                     /\ winAny' = (InWindow # {})
                     /\ UNCHANGED <<popped, result>>
           ELSE IF nxt # Null
                THEN tail' = Advance(cur, nxt) /\ PopReturn(Some(Returned(cur, nxt)))
                ELSE /\ popTail' = cur
                     /\ pc' = [pc EXCEPT ![Consumer] = "loadhead"]
                     /\ winAny' = (InWindow # {})
                     /\ UNCHANGED <<tail, popped, result>>
    /\ UNCHANGED <<head, next, node, prev, pushed, handed>>
    /\ seen' = LinkSync(next[Cursor])

\* Lines 108-113: next = (*next).next(Relaxed), after stepping off the stub.
PopSecond ==
    /\ pc[Consumer] = "second"
    /\ LET nxt == next[popTail]
       IN  IF nxt # Null
           THEN tail' = Advance(popTail, nxt) /\ PopReturn(Some(Returned(popTail, nxt)))
           ELSE /\ pc' = [pc EXCEPT ![Consumer] = "loadhead"]
                /\ UNCHANGED <<tail, popTail, popped, result, winAny>>
    /\ UNCHANGED <<head, next, node, prev, pushed, winAll, handed>>
    /\ seen' = LinkSync(next[popTail])

\* Mutant of PopLoadHead: the stub is never put back; a cursor without a
\* successor is reported as empty whatever head is.
PopLoadHeadNoStub ==
    /\ pc[Consumer] = "loadhead"
    /\ PopReturn(None)
    /\ UNCHANGED <<head, tail, next, node, prev, pushed, winAll, handed>>
    /\ UNCHANGED seen

\* Mutant of PopLoadHead: when the cursor is not the head, pop waits for the
\* pending link write by reading the cursor's link again.
PopLoadHeadSpin ==
    /\ pc[Consumer] = "loadhead"
    /\ IF popTail # head
       THEN /\ pc' = [pc EXCEPT ![Consumer] = "second"]
            /\ UNCHANGED <<node, popTail, popped, result, winAny>>
       ELSE /\ pc' = [pc EXCEPT ![Consumer] = "store"]
            /\ node' = [node EXCEPT ![Consumer] = Stub]
            /\ UNCHANGED <<popTail, popped, result, winAny>>
    /\ UNCHANGED <<head, tail, next, prev, pushed, winAll, handed>>
    /\ seen' = HeadSync

\* Mutant of PopLoadHead: the stub is put back whenever the cursor has no
\* successor, whatever head is.
PopLoadHeadAlwaysStub ==
    /\ pc[Consumer] = "loadhead"
    /\ pc' = [pc EXCEPT ![Consumer] = "store"]
    /\ node' = [node EXCEPT ![Consumer] = Stub]
    /\ UNCHANGED <<popTail, popped, result, winAny>>
    /\ UNCHANGED <<head, tail, next, prev, pushed, winAll, handed>>
    /\ seen' = HeadSync

\* Lines 114-119: load head; report empty when the cursor is not the head,
\* else call push(stub).
PopLoadHead ==
    /\ pc[Consumer] = "loadhead"
    /\ IF popTail # head
       THEN PopReturn(None) /\ UNCHANGED node
       ELSE /\ pc' = [pc EXCEPT ![Consumer] = "store"]
            /\ node' = [node EXCEPT ![Consumer] = Stub]
            /\ UNCHANGED <<popTail, popped, result, winAny>>
    /\ UNCHANGED <<head, tail, next, prev, pushed, winAll, handed>>
    /\ seen' = HeadSync

\* Mutant of PopReload: empty is reported without reading the link again.
PopReloadNoReread ==
    /\ pc[Consumer] = "reload"
    /\ PopReturn(None)
    /\ UNCHANGED <<head, tail, next, node, prev, pushed, winAll, handed>>
    /\ UNCHANGED seen

\* Lines 120-125: reload the cursor's next after push(stub) returned.
PopReload ==
    /\ pc[Consumer] = "reload"
    /\ LET nxt == next[popTail]
       IN  IF nxt # Null
           THEN tail' = Advance(popTail, nxt) /\ PopReturn(Some(Returned(popTail, nxt)))
           ELSE PopReturn(None) /\ UNCHANGED tail
    /\ UNCHANGED <<head, next, node, prev, pushed, winAll, handed>>
    /\ seen' = LinkSync(next[popTail])

\* ---------------------------------------------------------------- Next
PushStep(t) == PushStore(t) \/ PushSwap(t) \/ PushLink(t)

ProducerStep(p) == (\E n \in Nodes : PushCall(p, n)) \/ PushStep(p)

ConsumerStep ==
    \/ PopFirst
    \/ PopSecond
    \/ PopLoadHead
    \/ PushStep(Consumer)
    \/ PopReload

Next == (\E p \in Producers : ProducerStep(p)) \/ ConsumerStep

Spec == Init /\ [][Next]_vars

\* The same program on a queue that was never constructed by new() but starts
\* as all-zero memory.
SpecZero == InitZero /\ [][Next]_vars

TypeOK ==
    /\ head \in Cells \cup {Null}
    /\ tail \in Cells \cup {Null}
    /\ next \in [Cells -> Cells \cup {Null}]
    /\ pc \in [Threads -> {"idle", "store", "swap", "link",
                           "second", "loadhead", "reload"}]
    /\ Len(pushed) <= MaxPush

\* A step in which pop returns; its result is result'.
PopReturnStep == ConsumerStep /\ pc'[Consumer] = "idle"

\* ------------------------------------------------------------------ C1
\* C1: every node pop has returned had been introduced by a push whose head
\* exchange came before, and no node is returned more often than it was
\* pushed: at every moment each returned value occurs in the returned sequence
\* at most as often as in the sequence of exchanged nodes.
C1_PoppedWithinPushed ==
    \A i \in 1..Len(popped) : Count(popped[i], popped) <= Count(popped[i], pushed)

\* A node was pushed, popped, pushed again and popped again while a producer
\* is in the middle of another push.
C1_Witness ==
    /\ \E n \in Nodes : Count(n, popped) = 2 /\ Count(n, pushed) = 2
    /\ \E p \in Producers : pc[p] # "idle"

\* ------------------------------------------------------------------ C2
\* One producer, one consumer, interleaved step by step.
NextSPSC == ProducerStep(1) \/ ConsumerStep

SpecSPSC == Init /\ [][NextSPSC]_vars

\* The nodes the single producer has passed to push so far, in call order.
CalledSPSC ==
    IF pc[1] \in {"store", "swap"} THEN Append(pushed, node[1]) ELSE pushed

\* C2: with one producer and one consumer the sequence of nodes returned by
\* pop is a prefix of the sequence of nodes pushed, in push order.
C2_FifoPrefix == IsPrefix(popped, CalledSPSC)

\* Two nodes came out, the second while the producer is inside its next push.
C2_Witness == Len(popped) = 2 /\ pc[1] = "link" /\ pc[Consumer] = "idle"

\* ------------------------------------------------------------------ C3
\* The test of the liveness property: the producers push distinct nodes (no
\* node is pushed a second time) and the consumer keeps calling pop.
PushDistinct(p, n) == Count(n, pushed) = 0 /\ PushCall(p, n)

NextDistinct ==
    \/ \E p \in Producers : (\E n \in Nodes : PushDistinct(p, n)) \/ PushStep(p)
    \/ ConsumerStep

\* Fair scheduling of every thread: the consumer keeps calling pop and keeps
\* running, and a producer inside push keeps running.
SpecFair ==
    /\ Init /\ [][NextDistinct]_vars
    /\ WF_vars(ConsumerStep)
    /\ \A p \in Producers : WF_vars(PushStep(p))

\* C3: under fair scheduling every node whose push has exchanged head is
\* eventually returned by pop: whenever an exchanged node is unpopped, a moment
\* follows at which pop has returned exactly the exchanged nodes, so no empty
\* report is permanent while a node is unpopped.
C3_AllEventuallyPopped == (Len(popped) < Len(pushed)) ~> (popped = pushed)

\* Every node has been pushed and has come out, after at least one empty report
\* on the way (the last pop returned the last node through the stub).
C3_Witness == Len(pushed) = NumNodes /\ popped = pushed /\ head = Stub

\* ------------------------------------------------------------------ C4
\* Some producer has been between its exchange and its link write at some
\* moment of the pop that is about to take its next step.
EverWindow == winAny \/ InWindow # {}

\* Every node whose push has exchanged head has been returned.
AllPopped == Len(popped) = Len(pushed)

\* C4 as stated: whenever pop reports empty, at that moment either every
\* exchanged node has been returned or some producer is between its exchange
\* and its link write.
C4_Original ==
    [][(PopReturnStep /\ result' = None) => (AllPopped \/ InWindow # {})]_vars

\* C4 amended: whenever pop reports empty, either every exchanged node has
\* been returned or some producer was between its exchange and its link write
\* at some moment of that pop invocation.
C4_EmptyMeansDrainedOrWindowDuringPop ==
    [][(PopReturnStep /\ result' = None) => (AllPopped \/ EverWindow)]_vars

\* pop is about to report empty on the head comparison: a node is unpopped and
\* no push is in its window now, but one was while this pop ran.
C4_Witness ==
    /\ pc[Consumer] = "loadhead"
    /\ popTail # head
    /\ ~AllPopped
    /\ InWindow = {}
    /\ winAny

\* ------------------------------------------------------------------ C5
\* The link fields thread t reads or writes in its next step.
Touches(t) ==
    IF pc[t] = "store" THEN {node[t]}
    ELSE IF pc[t] = "link" THEN {LinkField(prev[t])}
    ELSE IF t = Consumer /\ pc[t] = "idle" THEN {Cursor}
    ELSE IF t = Consumer /\ pc[t] \in {"second", "reload"} THEN {popTail}
    ELSE {}

\* C5: a node that pop has returned and that has not been pushed again is
\* referred to by nothing in the queue: it is not head, not tail, not the
\* consumer's cursor, not the previous head of any push in flight, and no
\* thread's next step reads or writes its link field.
C5_PoppedNodeIsReleased ==
    \A x \in Nodes :
        (Count(x, popped) > 0 /\ CallerOwned(x)) =>
            /\ head # x
            /\ tail # x
            /\ popTail # x
            /\ \A t \in Threads : prev[t] # x /\ x \notin Touches(t)

\* A returned node is the caller's again while a producer is between exchange
\* and link write and the consumer is inside another pop.
C5_Witness ==
    /\ \E x \in Nodes : Count(x, popped) > 0 /\ CallerOwned(x)
    /\ InWindow # {}
    /\ pc[Consumer] \in {"second", "loadhead", "store", "swap", "link", "reload"}

\* ------------------------------------------------------------------ C6
\* Operations that do not overlap: a thread takes a step only while every
\* other thread is outside push and pop.
ThreadStep(t) == IF t = Consumer THEN ConsumerStep ELSE ProducerStep(t)

NextSeq ==
    \E t \in Threads :
        /\ \A u \in Threads \ {t} : pc[u] = "idle"
        /\ ThreadStep(t)

SpecSeq == Init /\ [][NextSeq]_vars

\* C6: when operations do not overlap the queue behaves as the FIFO sequence
\* of the pushed and not yet popped nodes: pop reports empty exactly when that
\* sequence is empty, and otherwise returns and removes its oldest node.
C6_SequentialFifo ==
    [][PopReturnStep =>
         IF AllPopped
         THEN result' = None /\ popped' = popped
         ELSE /\ result' = Some(pushed[Len(popped) + 1])
              /\ popped' = Append(popped, pushed[Len(popped) + 1])]_vars

\* push(1); push(2); then pops gave 1, 2 and, last, empty.
C6_Witness ==
    /\ pushed = <<1, 2>>
    /\ popped = <<1, 2>>
    /\ result = None
    /\ \A t \in Threads : pc[t] = "idle"

\* ------------------------------------------------------------------ C7
\* The producers that have been inside one exchange-to-link window during the
\* whole of the pop that is about to take its next step.
WholeWindow == IF pc[Consumer] = "idle" THEN InWindow ELSE winAll

\* The node exchanged last.
LastPushed == pushed[Len(pushed)]

\* C7: with a single node A unpopped, a pop that runs entirely while the push
\* of A is between its exchange and its link write reports empty; and a pop
\* during which no producer is between exchange and link write (the link
\* write of A has landed) returns A.
C7_RaceThenDelivered ==
    [][(PopReturnStep /\ Len(pushed) = Len(popped) + 1) =>
         /\ (\E p \in WholeWindow : node[p] = LastPushed) => result' = None
         /\ ~EverWindow => result' = Some(LastPushed)]_vars

\* A pop has run to its end inside the window of the push of the only unpopped
\* node, which is still in that window, and has reported empty.
C7_Witness ==
    /\ pc[Consumer] = "idle"
    /\ result = None
    /\ Len(pushed) = Len(popped) + 1
    /\ \E p \in winAll : pc[p] = "link" /\ node[p] = LastPushed

\* ------------------------------------------------------------------ C8
\* C8 as stated: every push invocation is handed a previous-head value whose
\* link field differs from the one of every other push invocation, so that no
\* link field is ever written by the link step of two pushes.
C8_Original ==
    \A i, j \in 1..Len(handed) :
        i # j => LinkField(handed[i]) # LinkField(handed[j])

\* C8 amended: the pushes that are at the same time between their exchange and
\* their link write hold pairwise different previous-head values and their
\* pending link writes target pairwise different link fields.
C8_InFlightPrevDistinct ==
    \A t, u \in Threads :
        (t # u /\ pc[t] = "link" /\ pc[u] = "link") =>
            /\ prev[t] # prev[u]
            /\ (IF prev[t] = Null THEN Stub ELSE prev[t])
                   # (IF prev[u] = Null THEN Stub ELSE prev[u])

\* Two producers are between exchange and link write at the same time.
C8_Witness == Cardinality(InWindow) >= 2

\* ------------------------------------------------------------------ C9
\* C9 as stated: a step of a producer changes no link field but the one of the
\* node it is introducing, and only after its head exchange.
C9_Original ==
    [][\A p \in Producers : \A c \in Cells :
          (pc'[p] # pc[p] /\ next'[c] # next[c]) =>
              (c = node[p] /\ pc[p] = "link")]_vars

\* C9 amended: a producer writes the link field of the node it introduces only
\* before the exchange, clearing it; after the exchange it writes one link
\* field, that of the previous head the exchange returned (the stub's for
\* zero), which is not its own node's, storing its node's address.
C9_ProducerWrites ==
    [][\A p \in Producers : \A c \in Cells :
          (pc'[p] # pc[p] /\ next'[c] # next[c]) =>
              \/ pc[p] = "store" /\ c = node[p] /\ next'[c] = Null
              \/ /\ pc[p] = "link"
                 /\ c = (IF prev[p] = Null THEN Stub ELSE prev[p])
                 /\ c # node[p]
                 /\ next'[c] = node[p]]_vars

\* A producer has linked its node behind another caller node, and a producer
\* is about to clear the stale link of a node it pushes again.
C9_Witness ==
    /\ \E c \in Nodes : next[c] \in Nodes
    /\ \E p \in Producers : pc[p] = "store" /\ next[node[p]] # Null

\* ----------------------------------------------------------------- C10
\* C10: push never waits: a producer inside push is at one of its three steps
\* (clear own link, exchange head, link write) and that step is enabled whatever
\* the other producers and the consumer are doing.
C10_PushNeverBlocked ==
    \A p \in Producers :
        /\ pc[p] \in {"idle", "store", "swap", "link"}
        /\ pc[p] = "store" => ENABLED PushStore(p)
        /\ pc[p] = "swap" => ENABLED PushSwap(p)
        /\ pc[p] = "link" => ENABLED PushLink(p)

\* A producer is about to exchange head while another producer and the
\* consumer (re-inserting the stub) are both between exchange and link write.
C10_Witness ==
    /\ \E p \in Producers : pc[p] = "swap"
    /\ InWindow # {}
    /\ pc[Consumer] = "link"

\* ----------------------------------------------------------------- C11
\* The order of pop's steps within one invocation.
Rank(l) ==
    CASE l = "idle" -> 0
      [] l = "second" -> 1
      [] l = "loadhead" -> 2
      [] l = "store" -> 3
      [] l = "swap" -> 4
      [] l = "link" -> 5
      [] l = "reload" -> 6

\* C11: pop never waits and never goes back: the consumer's next step is always
\* enabled, every step of a pop either returns or moves to a later step of the
\* same straight line, self.tail moves only in pop's first step (off the stub)
\* and in its returning step, and head is exchanged by pop only in the one
\* exchange of the stub's re-insertion.
C11_PopBounded ==
    [][/\ ENABLED ConsumerStep
       /\ pc'[Consumer] # pc[Consumer] =>
              (pc'[Consumer] = "idle" \/ Rank(pc'[Consumer]) > Rank(pc[Consumer]))
       /\ tail' # tail => (pc[Consumer] = "idle" \/ pc'[Consumer] = "idle")
       /\ (pc'[Consumer] # pc[Consumer] /\ head' # head) => pc[Consumer] = "swap"]_vars

\* pop is at its last step, after stepping off the stub and re-inserting it,
\* while a producer is between its exchange and its link write.
C11_Witness ==
    /\ pc[Consumer] = "reload"
    /\ InWindow # {}
    /\ popped = <<>>

\* ----------------------------------------------------------------- C12
\* C12: self.tail changes only in steps of pop proper; a step of push, by a
\* producer or by pop re-inserting the stub, leaves tail alone and its effect
\* is a function of the node, the previous head, head and the links only.
C12_TailIsPopsOnly ==
    [][/\ tail' # tail => (PopFirst \/ PopSecond \/ PopReload)
       /\ \A t \in Threads :
            (pc'[t] # pc[t] /\ pc[t] \in {"store", "swap", "link"}) =>
                /\ tail' = tail
                /\ pc[t] = "store" =>
                       (next' = [next EXCEPT ![node[t]] = Null] /\ head' = head)
                /\ pc[t] = "swap" =>
                       (head' = node[t] /\ prev'[t] = head /\ next' = next)
                /\ pc[t] = "link" =>
                       /\ next' = [next EXCEPT
                                     ![IF prev[t] = Null THEN Stub ELSE prev[t]]
                                         = node[t]]
                       /\ head' = head]_vars

\* The consumer has moved its tail to a node while a producer is inside push
\* and the stub is being re-inserted.
C12_Witness ==
    /\ tail \in Nodes
    /\ pc[Consumer] \in {"store", "swap", "link"}
    /\ \E p \in Producers : pc[p] \in {"store", "swap", "link"}

\* ----------------------------------------------------------------- C13
\* C13: a queue that starts as all-zero memory behaves as one built by new():
\* its initial state is the state new() returns, and every step it takes is a
\* step of the program started from new(), so both give the same results and
\* the same successor states.
C13_ZeroBehavesAsNew == StartFrom(NewQueue) /\ [][Next]_vars

\* An all-zero queue has been pushed to and popped from, the stub re-inserted.
C13_Witness ==
    /\ Len(popped) >= 2
    /\ head = Stub
    /\ result # None

\* ----------------------------------------------------------------- C14
\* pop's first step reports empty at line 104: the cursor is the stub and the
\* stub's link is null.
EmptyAtStub == PopFirst /\ Cursor = Stub /\ next[Stub] = Null

\* C14 as stated: whenever pop reports empty at the stub, no push has done its
\* head exchange without also having done its link write.
C14_Original == [][EmptyAtStub => InWindow = {}]_vars

\* C14: whenever pop reports empty at the stub, either every node whose push
\* has exchanged head has been returned (and then no push is between its
\* exchange and its link write), or the push of the oldest node not yet
\* returned is between its exchange and its link write, the pending write
\* being the one to the stub's link.
C14_EmptyAtStubDrainedOrFirstPending ==
    [][EmptyAtStub =>
          \/ AllPopped /\ InWindow = {}
          \/ /\ Len(popped) < Len(pushed)
             /\ \E p \in InWindow :
                   /\ prev[p] \in {Null, Stub}
                   /\ node[p] = pushed[Len(popped) + 1]]_vars

\* pop has reported empty at the stub while a push whose previous head was
\* the re-inserted stub was, and still is, between exchange and link write,
\* and pop would do so again.
C14_Witness ==
    /\ pc[Consumer] = "idle"
    /\ result = None
    /\ Cursor = Stub
    /\ next[Stub] = Null
    /\ \E p \in InWindow \cap winAll : prev[p] = Stub

\* ----------------------------------------------------------------- C15
\* C15: head is the zero word exactly while no push has done its head
\* exchange; the exchanges of producers' pushes returned zero exactly once,
\* to the first of them, and the exchange of a stub re-insertion never does.
C15_HeadZeroOnlyBeforeFirstExchange ==
    /\ head = Null <=> pushed = <<>>
    /\ handed # <<>> => (handed[1] = Null /\ Count(Null, handed) = 1)
    /\ pc[Consumer] = "link" => prev[Consumer] # Null

\* The stub is being re-inserted after its exchange, and producers have done
\* three exchanges.
C15_Witness ==
    /\ pc[Consumer] = "link"
    /\ prev[Consumer] \in Nodes
    /\ Len(handed) >= 3

\* ----------------------------------------------------------------- C16
\* C16: the loads of link fields in pop pair, as acquire loads, with the
\* release stores of push, so that the payload of every node pop has
\* returned is visible to the consumer: the writes of its push come before
\* an acquire operation of the consumer.
C16_PoppedPayloadVisible == seen >= Len(popped)

\* ----------------------------------------------------------------- C17
\* C17: pop never returns the stub: every node pop has returned is a node of
\* a caller, the last result is not Some(stub), and the stub's link never
\* points to the stub itself, however often the stub has been re-inserted.
C17_StubNeverReturned ==
    /\ \A i \in 1..Len(popped) : popped[i] \in Nodes
    /\ result # Some(Stub)
    /\ next[Stub] # Stub

\* The consumer has passed the stub, re-inserted for the second time: the second
\* push found the re-inserted stub as previous head, and its node was returned
\* after another re-insertion.
C17_Witness ==
    /\ Len(popped) = 2
    /\ Len(handed) = 2
    /\ handed[2] = Stub
    /\ tail = Stub

\* ----------------------------------------------------------------- C18
\* C18: with several producers, the nodes pop has returned are, in order, the
\* first of the nodes in the order their pushes exchanged head.
C18_ExchangeOrderFifo == IsPrefix(popped, pushed)

\* A node has been returned while both producers are between their exchange
\* and their link write.
C18_Witness ==
    /\ Len(popped) = 1
    /\ InWindow = Producers

\* ----------------------------------------------------------------- C19
\* C19: the pushes between exchange and link write have pairwise different
\* link fields to write; while pop re-inserts the stub, before its exchange,
\* no producer has a write to the stub's link pending; and every pending link
\* write goes to a field that is null, so no link write overwrites another.
C19_NoLinkWriteLost ==
    /\ \A t \in Threads : \A u \in Threads \ {t} :
          (pc[t] = "link" /\ pc[u] = "link") =>
              LinkField(prev[t]) # LinkField(prev[u])
    /\ pc[Consumer] \in {"store", "swap"} =>
          \A p \in InWindow : LinkField(prev[p]) # Stub
    /\ \A t \in Threads : pc[t] = "link" => next[LinkField(prev[t])] = Null

\* pop is about to exchange head with the stub while both producers are
\* between their exchange and their link write.
C19_Witness ==
    /\ pc[Consumer] = "swap"
    /\ InWindow = Producers

\* ----------------------------------------------------------------- C20
\* C20: while pop re-inserts the stub, before its exchange, the stub is not
\* the head, is not met by following the links from the consumer's cursor, and
\* is not the previous head of a pending link write, also when a producer's
\* exchange came after pop's load of head; and a pop that begins when every
\* exchanged node has been returned reports empty in its first step, leaving
\* head, tail and every link as they were.
C20_StubLinkedOnce ==
    [][/\ pc[Consumer] \in {"store", "swap"} =>
              /\ head # Stub
              /\ Stub \notin Chain(popTail, NumNodes + 2)
              /\ \A p \in InWindow : prev[p] # Stub
       /\ (PopFirst /\ AllPopped) =>
              /\ result' = None
              /\ pc'[Consumer] = "idle"
              /\ UNCHANGED <<head, tail, next>>]_vars

\* pop is about to exchange head with the stub after a producer's exchange
\* came between pop's load of head and this step.
C20_Witness ==
    /\ pc[Consumer] = "swap"
    /\ head # popTail
    /\ head \in Nodes

====
